---- MODULE Spec2Model ----
(***************************************************************************)
(* Model of syft/core/common/serde/serializable.py: the bind_protobuf      *)
(* class decorator (the schema -> type reverse mapping, "schema2type") and *)
(* the Serializable base class (serialize and its convenience wrappers).   *)
(***************************************************************************)
EXTENDS Integers, Sequences, FiniteSets, TLC

\* ------------------------------------------------------------------ bounds
\* largest field value an instance carries (values are 0..MaxVal)
MaxVal == 1
\* number of sequential bind_protobuf calls explored
MaxRegs == 3
\* number of threads running bind_protobuf concurrently (SpecConc)
NThreads == 2

\* ------------------------------------------------------------- the classes
\* "Serializable" is the base class itself (nothing overridden); "Stub" is a
\* subclass that gives a schema but never overrode _object2proto; the others
\* are complete subclasses. Point and Pair use the same protobuf schema.
Types == {"Point", "Pair", "Flag", "Stub", "Serializable"}

Descriptors == {"PointPB", "FlagPB", "StubPB"}

Values == 0..MaxVal

\* the exception raised by traceback_and_raise(NotImplementedError)
NotImplemented == "NotImplementedError"

\* cls.get_protobuf_schema(): the base version raises NotImplementedError
get_protobuf_schema(cls) ==
    CASE cls = "Point" -> "PointPB"
      [] cls = "Pair"  -> "PointPB"
      [] cls = "Flag"  -> "FlagPB"
      [] cls = "Stub"  -> "StubPB"
      [] OTHER         -> NotImplemented

\* whether the class overrides _object2proto / _proto2object
Overrides(cls) == cls \in {"Point", "Pair", "Flag"}

\* schema2type of a descriptor: no attribute yet, None, or a class
Unset == "<no attribute>"
None == "<None>"

\* ------------------------------------------------------------ result values
\* Every call ends in one record: kind says which field carries the value.
\*   kind = "proto": proto is the protobuf object returned
\*   kind = "bytes": bytes is the byte string returned
\*   kind = "obj":   obj is the object returned (deserialize)
\*   kind = "raise": err is the exception raised, nothing is returned
\*   kind = "none":  the call returns None
\* calls counts the _object2proto invocations the call made.
NoProto == [pb |-> "", val |-> 0]
NoObj == [cls |-> "", val |-> 0]
Blank == [kind |-> "none", proto |-> NoProto, bytes |-> <<>>, obj |-> NoObj,
          err |-> "", calls |-> 0]
RetProto(p, n) == [Blank EXCEPT !.kind = "proto", !.proto = p, !.calls = n]
RetBytes(b, n) == [Blank EXCEPT !.kind = "bytes", !.bytes = b, !.calls = n]
RetObj(o) == [Blank EXCEPT !.kind = "obj", !.obj = o]
Raise(e, n) == [Blank EXCEPT !.kind = "raise", !.err = e, !.calls = n]

Instances == [cls : Types, val : Values]

\* an object of class c, where only the class matters
Of(c) == [cls |-> c, val |-> 0]

\* --------------------------------------------------------- the type contract
\* self._object2proto(): a complete subclass builds the protobuf object of
\* its schema from the instance; the base version raises NotImplementedError
object2proto(self) ==
    IF Overrides(self.cls)
    THEN RetProto([pb |-> get_protobuf_schema(self.cls), val |-> self.val], 1)
    ELSE Raise(NotImplemented, 1)

\* cls._proto2object(proto): the subclass rebuilds the instance from the
\* protobuf object; the base version raises NotImplementedError
proto2object(cls, p) ==
    IF Overrides(cls)
    THEN RetObj([cls |-> cls, val |-> p.val])
    ELSE Raise(NotImplemented, 0)

\* ---------------------------------------------------------- protobuf bytes
\* message.SerializeToString() of a payload message with one varint field
\* (number 1): proto3 leaves a field holding its default value out
SerializeToString(p) == IF p.val = 0 THEN <<>> ELSE <<8, p.val>>

\* message.ParseFromString(bytes) for a payload message of schema pb
ParseFromString(pb, b) ==
    IF b = <<>> THEN [ok |-> TRUE, proto |-> [pb |-> pb, val |-> 0]]
    ELSE IF Len(b) = 2 /\ b[1] = 8 THEN [ok |-> TRUE, proto |-> [pb |-> pb, val |-> b[2]]]
    ELSE [ok |-> FALSE, proto |-> NoProto]

\* the characters of a class's __name__
ClassName(cls) ==
    CASE cls = "Point" -> <<80, 111>>
      [] cls = "Pair"  -> <<80, 97>>
      [] cls = "Flag"  -> <<70>>
      [] cls = "Stub"  -> <<83, 116>>
      [] OTHER         -> <<83, 101>>

\* get_fully_qualified_name(obj): module path, a dot, the class name
get_fully_qualified_name(self) == <<112, 46>> \o ClassName(self.cls)

\* DataMessage(obj_type=t, content=c).SerializeToString(): two
\* length-delimited fields, obj_type (number 1) and content (number 2), each
\* left out when empty
DataMessage(t, c) ==
    (IF t = <<>> THEN <<>> ELSE <<10, Len(t)>> \o t)
    \o (IF c = <<>> THEN <<>> ELSE <<18, Len(c)>> \o c)

\* one length-delimited field with key k at the head of b, if it is there
TakeField(b, k) ==
    IF b = <<>> \/ b[1] # k THEN [ok |-> TRUE, val |-> <<>>, rest |-> b]
    ELSE IF Len(b) < 2 \/ Len(b) < 2 + b[2] THEN [ok |-> FALSE, val |-> <<>>, rest |-> <<>>]
    ELSE [ok |-> TRUE, val |-> SubSeq(b, 3, 2 + b[2]), rest |-> SubSeq(b, 3 + b[2], Len(b))]

\* DataMessage().ParseFromString(b): the (obj_type, content) pair of an envelope
ParseDataMessage(b) ==
    LET f1 == TakeField(b, 10)
        f2 == TakeField(f1.rest, 18)
    IN  IF f1.ok /\ f2.ok /\ f2.rest = <<>>
        THEN [ok |-> TRUE, obj_type |-> f1.val, content |-> f2.val]
        ELSE [ok |-> FALSE, obj_type |-> <<>>, content |-> <<>>]

\* --------------------------------------------------------------- serialize
NoModeSpecified == "Exception: You must specify at least one deserialization format"
TypeMismatch == "Exception: Object should've been of type"

\* Faulty variants of serialize, each one slip away from the code.
\* the to_proto branch tested before the to_bytes branch
serialize_protoFirst(self, tp, tb) ==
    IF tp THEN object2proto(self)
    ELSE IF tb
    THEN LET p == object2proto(self)
         IN  IF p.kind = "raise" THEN p
             ELSE RetBytes(DataMessage(get_fully_qualified_name(self),
                                       SerializeToString(p.proto)), p.calls)
    ELSE Raise(NoModeSpecified, 0)

\* obj_type taken from the base class instead of the instance's class
serialize_baseTag(self, tp, tb) ==
    IF tb
    THEN LET p == object2proto(self)
         IN  IF p.kind = "raise" THEN p
             ELSE RetBytes(DataMessage(get_fully_qualified_name(Of("Serializable")),
                                       SerializeToString(p.proto)), p.calls)
    ELSE IF tp THEN object2proto(self)
    ELSE Raise(NoModeSpecified, 0)

\* the envelope built without its content
serialize_noContent(self, tp, tb) ==
    IF tb
    THEN LET p == object2proto(self)
         IN  IF p.kind = "raise" THEN p
             ELSE RetBytes(DataMessage(get_fully_qualified_name(self), <<>>), p.calls)
    ELSE IF tp THEN object2proto(self)
    ELSE Raise(NoModeSpecified, 0)

\* _object2proto called before the flags are looked at
serialize_eager(self, tp, tb) ==
    LET p == object2proto(self)
    IN  IF tb
        THEN IF p.kind = "raise" THEN p
             ELSE RetBytes(DataMessage(get_fully_qualified_name(self),
                                       SerializeToString(p.proto)), p.calls)
        ELSE IF tp THEN p
        ELSE Raise(NoModeSpecified, p.calls)

\* a failing _object2proto swallowed, an empty payload sent in its place
serialize_swallow(self, tp, tb) ==
    IF tb
    THEN LET p == object2proto(self)
         IN  RetBytes(DataMessage(get_fully_qualified_name(self),
                                  IF p.kind = "raise" THEN <<>>
                                  ELSE SerializeToString(p.proto)), p.calls)
    ELSE IF tp THEN object2proto(self)
    ELSE Raise(NoModeSpecified, 0)

\* Serializable.serialize(self, to_proto, to_bytes): the to_bytes branch is
\* tested first, then to_proto, and with neither the call raises
serialize(self, tp, tb) ==
    IF tb
    THEN LET p == object2proto(self)
         IN  IF p.kind = "raise" THEN p
             ELSE RetBytes(DataMessage(get_fully_qualified_name(self),
                                       SerializeToString(p.proto)), p.calls)
    ELSE IF tp THEN object2proto(self)
    ELSE Raise(NoModeSpecified, 0)

\* validate_type(_object, _type): the object itself when it has the type,
\* an exception otherwise; an exception raised by the argument propagates
validate_type(r, kind) ==
    IF r.kind = "raise" \/ r.kind = kind THEN r ELSE Raise(TypeMismatch, r.calls)

\* the defaults of serialize's parameters
DefaultToProto == TRUE
DefaultToBytes == FALSE

\* faulty variant of binary: the result validated against Message
binary_asProto(self) == validate_type(serialize(self, DefaultToProto, TRUE), "proto")

to_proto(self) == validate_type(serialize(self, TRUE, DefaultToBytes), "proto")
proto(self) == validate_type(serialize(self, TRUE, DefaultToBytes), "proto")
to_bytes(self) == validate_type(serialize(self, DefaultToProto, TRUE), "bytes")
binary(self) == validate_type(serialize(self, DefaultToProto, TRUE), "bytes")

\* ------------------------------------------------------------ the registry
\* Faulty variants of bind_protobuf, each one slip away from the code.
\* the attribute's truth tested instead of its presence: None counts as absent
bind_protobuf_truthy(m, cls) ==
    LET protobuf_schema == get_protobuf_schema(cls)
    IN  IF m[protobuf_schema] \notin {Unset, None}
        THEN [m EXCEPT ![protobuf_schema] = None]
        ELSE [m EXCEPT ![protobuf_schema] = cls]

\* registering the class already recorded leaves it recorded
bind_protobuf_idempotent(m, cls) ==
    LET protobuf_schema == get_protobuf_schema(cls)
    IN  IF m[protobuf_schema] # Unset /\ m[protobuf_schema] # cls
        THEN [m EXCEPT ![protobuf_schema] = None]
        ELSE [m EXCEPT ![protobuf_schema] = cls]

\* the attribute set on every schema, not on the class's own schema alone
bind_protobuf_everySchema(m, cls) ==
    LET protobuf_schema == get_protobuf_schema(cls)
    IN  IF m[protobuf_schema] # Unset
        THEN [d \in Descriptors |-> None]
        ELSE [d \in Descriptors |-> cls]

\* bind_protobuf(cls) on the mapping m: a schema that already has the
\* attribute schema2type (whatever it holds) gets None, any other gets cls
bind_protobuf(m, cls) ==
    LET protobuf_schema == get_protobuf_schema(cls)
    IN  IF m[protobuf_schema] # Unset
        THEN [m EXCEPT ![protobuf_schema] = None]
        ELSE [m EXCEPT ![protobuf_schema] = cls]

\* ------------------------------------------------------------- deserialize
UnknownType == "UnknownType"
AmbiguousType == "AmbiguousType"
MalformedEnvelope == "MalformedEnvelope"

\* resolve(typeTag) on the mapping m: the class named by the tag, then the
\* reverse mapping of that class's schema
resolve(m, tag) ==
    LET named == {c \in Types : get_fully_qualified_name([cls |-> c, val |-> 0]) = tag}
    IN  IF named = {} THEN [ok |-> FALSE, cls |-> "", err |-> UnknownType]
        ELSE LET c == CHOOSE x \in named : TRUE
                 d == get_protobuf_schema(c)
             IN  IF d \notin Descriptors \/ m[d] = Unset
                 THEN [ok |-> FALSE, cls |-> "", err |-> UnknownType]
                 ELSE IF m[d] = None
                 THEN [ok |-> FALSE, cls |-> "", err |-> AmbiguousType]
                 ELSE [ok |-> TRUE, cls |-> m[d], err |-> ""]

\* deserialize(bytes) on the mapping m: decode the envelope, resolve the
\* tag, parse the content with the resolved class's schema, rebuild
deserialize(m, b) ==
    LET env == ParseDataMessage(b)
    IN  IF ~env.ok THEN Raise(MalformedEnvelope, 0)
        ELSE LET r == resolve(m, env.obj_type)
             IN  IF ~r.ok THEN Raise(r.err, 0)
                 ELSE LET msg == ParseFromString(get_protobuf_schema(r.cls), env.content)
                      IN  IF ~msg.ok THEN Raise(MalformedEnvelope, 0)
                          ELSE proto2object(r.cls, msg.proto)

\* ------------------------------------------------------------------- state
VARIABLES
    schema2type,  \* descriptor -> Unset | None | class: protobuf_schema.schema2type
    regLog,       \* the classes of the bind_protobuf calls completed, in order
    call,         \* the last call made: its name and arguments
    result,       \* what the last call returned or raised
    pc,           \* thread -> position inside bind_protobuf
    tcls,         \* thread -> the cls argument of its bind_protobuf call
    thas          \* thread -> what its hasattr(protobuf_schema, "schema2type") gave

vars == <<schema2type, regLog, call, result, pc, tcls, thas>>

Threads == 1..NThreads

NoCall == [op |-> "none", self |-> NoObj, tp |-> FALSE, tb |-> FALSE,
           intact |-> TRUE, settled |-> TRUE]
Call(op, self, tp, tb) == [NoCall EXCEPT !.op = op, !.self = self, !.tp = tp, !.tb = tb]

Init ==
    /\ schema2type = [d \in Descriptors |-> Unset]
    /\ regLog = <<>>
    /\ call = NoCall
    /\ result = Blank
    /\ pc = [t \in Threads |-> "idle"]
    /\ tcls = [t \in Threads |-> ""]
    /\ thas = [t \in Threads |-> FALSE]

\* ------------------------------------------------- actions, one call each
\* bind_protobuf(cls) run as one step (registration at import time)
Register(cls) ==
    /\ Len(regLog) < MaxRegs
    /\ call' = Call("bind_protobuf", [cls |-> cls, val |-> 0], FALSE, FALSE)
    /\ IF get_protobuf_schema(cls) = NotImplemented
       THEN /\ result' = Raise(NotImplemented, 0)
            /\ UNCHANGED <<schema2type, regLog>>
       ELSE /\ schema2type' = bind_protobuf(schema2type, cls)
            /\ regLog' = Append(regLog, cls)
            /\ result' = [Blank EXCEPT !.kind = "class", !.obj = [cls |-> cls, val |-> 0]]
    /\ UNCHANGED <<pc, tcls, thas>>

Serialize(self, tp, tb) ==
    /\ call' = Call("serialize", self, tp, tb)
    /\ result' = serialize(self, tp, tb)
    /\ UNCHANGED <<schema2type, regLog, pc, tcls, thas>>

ToProto(self) ==
    /\ call' = Call("to_proto", self, TRUE, DefaultToBytes)
    /\ result' = to_proto(self)
    /\ UNCHANGED <<schema2type, regLog, pc, tcls, thas>>

Proto(self) ==
    /\ call' = Call("proto", self, TRUE, DefaultToBytes)
    /\ result' = proto(self)
    /\ UNCHANGED <<schema2type, regLog, pc, tcls, thas>>

ToBytes(self) ==
    /\ call' = Call("to_bytes", self, DefaultToProto, TRUE)
    /\ result' = to_bytes(self)
    /\ UNCHANGED <<schema2type, regLog, pc, tcls, thas>>

Binary(self) ==
    /\ call' = Call("binary", self, DefaultToProto, TRUE)
    /\ result' = binary(self)
    /\ UNCHANGED <<schema2type, regLog, pc, tcls, thas>>

\* deserialize applied to the bytes the last call returned, as they are
\* (intact) or with the last byte lost on the way
Deserialize(keep) ==
    /\ result.kind = "bytes"
    /\ call' = [Call("deserialize", call.self, FALSE, FALSE) EXCEPT !.intact = keep]
    /\ result' = deserialize(schema2type,
                   IF keep THEN result.bytes
                   ELSE SubSeq(result.bytes, 1, Len(result.bytes) - 1))
    /\ UNCHANGED <<schema2type, regLog, pc, tcls, thas>>

Next ==
    \/ \E cls \in Types : Register(cls)
    \/ \E self \in Instances, tp \in BOOLEAN, tb \in BOOLEAN : Serialize(self, tp, tb)
    \/ \E self \in Instances : ToProto(self)
    \/ \E self \in Instances : Proto(self)
    \/ \E self \in Instances : ToBytes(self)
    \/ \E self \in Instances : Binary(self)
    \/ \E keep \in BOOLEAN : Deserialize(keep)

Spec == Init /\ [][Next]_vars

\* ------------------------------- bind_protobuf run by concurrent threads
\* Each thread makes one bind_protobuf call; the statements of the function
\* are separate steps, so other threads may run between them.

\* line 20: protobuf_schema = cls.get_protobuf_schema()
Begin(t, cls) ==
    /\ pc[t] = "idle"
    /\ tcls' = [tcls EXCEPT ![t] = cls]
    /\ pc' = [pc EXCEPT ![t] =
                IF get_protobuf_schema(cls) = NotImplemented THEN "done" ELSE "check"]
    /\ UNCHANGED <<schema2type, regLog, call, result, thas>>

\* line 23: hasattr(protobuf_schema, "schema2type")
Check(t) ==
    /\ pc[t] = "check"
    /\ thas' = [thas EXCEPT ![t] = schema2type[get_protobuf_schema(tcls[t])] # Unset]
    /\ pc' = [pc EXCEPT ![t] = "write"]
    /\ UNCHANGED <<schema2type, regLog, call, result, tcls>>

\* lines 24 and 26: the assignment the test chose, then return cls
Write(t) ==
    /\ pc[t] = "write"
    /\ schema2type' = [schema2type EXCEPT ![get_protobuf_schema(tcls[t])] =
                          IF thas[t] THEN None ELSE tcls[t]]
    /\ regLog' = Append(regLog, tcls[t])
    /\ pc' = [pc EXCEPT ![t] = "done"]
    /\ UNCHANGED <<call, result, tcls, thas>>

AllDone == \A t \in Threads : pc[t] = "done"

\* a lookup of class cls's tag; settled records whether every bind_protobuf
\* call had completed when the lookup started
Lookup(cls) ==
    /\ call' = [Call("resolve", Of(cls), FALSE, FALSE) EXCEPT !.settled = AllDone]
    /\ result' = LET r == resolve(schema2type, get_fully_qualified_name(Of(cls)))
                 IN  IF r.ok THEN [Blank EXCEPT !.kind = "class", !.obj = Of(r.cls)]
                     ELSE Raise(r.err, 0)
    /\ UNCHANGED <<schema2type, regLog, pc, tcls, thas>>

NextConc ==
    \/ \E t \in Threads, cls \in Types : Begin(t, cls)
    \/ \E t \in Threads : Check(t)
    \/ \E t \in Threads : Write(t)
    \/ \E cls \in Types : Lookup(cls)

SpecConc == Init /\ [][NextConc]_vars

\* ================================================================== claims
\* the bind_protobuf calls completed against descriptor d, in order
CallsOn(d) == SelectSeq(regLog, LAMBDA c : get_protobuf_schema(c) = d)

\* what serialize returns for an instance in bytes mode, written out: the
\* envelope of the class's qualified name and the payload's bytes
EnvelopeOf(self) ==
    DataMessage(get_fully_qualified_name(self),
                SerializeToString([pb |-> get_protobuf_schema(self.cls), val |-> self.val]))

\* C1: once two distinct classes have been registered against one descriptor,
\* in any order and among any other registrations, that descriptor's
\* schema2type is None, never one of the classes, and no resolve through the
\* descriptor gives a class.
C1_AmbiguousAfterTwoTypes ==
    \A d \in Descriptors :
        (\E i, j \in DOMAIN CallsOn(d) : CallsOn(d)[i] # CallsOn(d)[j])
        => /\ schema2type[d] = None
           /\ \A c \in Types : get_protobuf_schema(c) = d
                => ~resolve(schema2type, get_fully_qualified_name(Of(c))).ok

C1_Witness ==
    /\ Len(regLog) = 3
    /\ {regLog[i] : i \in DOMAIN regLog} = {"Point", "Pair"}
    /\ schema2type["PointPB"] = None

\* C2 as stated: serialize with both flags set returns the bare protobuf
\* object of _object2proto, with no envelope.
C2_Original ==
    (call.op = "serialize" /\ call.tp /\ call.tb /\ Overrides(call.self.cls))
    => result = RetProto([pb |-> get_protobuf_schema(call.self.cls), val |-> call.self.val], 1)

\* C2 amended: serialize with both flags set returns the bytes-mode result,
\* the encoded envelope of (qualified name, payload bytes), on every call; for
\* a class without _object2proto it raises NotImplementedError.
C2_BothFlagsGiveBytes ==
    (call.op = "serialize" /\ call.tp /\ call.tb)
    => IF Overrides(call.self.cls)
       THEN result = RetBytes(EnvelopeOf(call.self), 1)
       ELSE result = Raise(NotImplemented, 1)

C2_Witness ==
    /\ call.op = "serialize" /\ call.tp /\ call.tb
    /\ call.self = [cls |-> "Point", val |-> 1]
    /\ result.kind = "bytes"

\* C3: for an instance whose _object2proto succeeds, serialize in bytes mode
\* returns bytes that decode as an envelope to exactly the pair (qualified
\* name of the instance's own class, bytes of its payload), and the name
\* belongs to no other class.
C3_EnvelopeCarriesTagAndPayload ==
    (call.op = "serialize" /\ call.tb /\ Overrides(call.self.cls))
    => /\ result.kind = "bytes"
       /\ ParseDataMessage(result.bytes) =
            [ok |-> TRUE,
             obj_type |-> <<112, 46>> \o ClassName(call.self.cls),
             content |-> IF call.self.val = 0 THEN <<>> ELSE <<8, call.self.val>>]
       /\ {c \in Types : get_fully_qualified_name(Of(c)) = ParseDataMessage(result.bytes).obj_type}
            = {call.self.cls}

C3_Witness ==
    /\ call.op = "serialize" /\ call.tb /\ ~call.tp
    /\ call.self = [cls |-> "Pair", val |-> 1]
    /\ result.kind = "bytes"
    /\ ParseDataMessage(result.bytes).content = <<8, 1>>

\* C4 as stated: for every class that has been registered, deserialize of the
\* bytes serialize gave for an instance of it succeeds with an equal instance.
C4_Original ==
    (call.op = "deserialize" /\ call.intact
        /\ \E i \in DOMAIN regLog : regLog[i] = call.self.cls)
    => result = RetObj(call.self)

\* C4 amended: for every class T whose schema's schema2type is T itself (T
\* registered, and nothing registered against its schema a second time),
\* deserialize of the bytes serialize gave for an instance of T succeeds with
\* an equal instance.
C4_RoundTripWhenUnambiguous ==
    (call.op = "deserialize" /\ call.intact
        /\ get_protobuf_schema(call.self.cls) \in Descriptors
        /\ schema2type[get_protobuf_schema(call.self.cls)] = call.self.cls)
    => result = RetObj(call.self)

C4_Witness ==
    /\ call.op = "deserialize" /\ call.intact
    /\ call.self = [cls |-> "Pair", val |-> 1]
    /\ schema2type["PointPB"] = "Pair"
    /\ result.kind = "obj"

\* C5: serialize with neither flag set raises the no-mode exception, returns
\* nothing and makes no _object2proto call.
C5_NoModeRaises ==
    (call.op = "serialize" /\ ~call.tp /\ ~call.tb)
    => result = Raise(NoModeSpecified, 0)

C5_Witness ==
    /\ call.op = "serialize" /\ ~call.tp /\ ~call.tb
    /\ call.self = [cls |-> "Point", val |-> 1]
    /\ result.kind = "raise"

\* C6: for a class that did not override _object2proto, serialize in proto
\* mode, serialize in bytes mode, to_proto, proto, to_bytes and binary all
\* raise NotImplementedError and give no output: no payload, no envelope.
C6_UnimplementedRaises ==
    (/\ ~Overrides(call.self.cls)
     /\ \/ call.op = "serialize" /\ (call.tp \/ call.tb)
        \/ call.op \in {"to_proto", "proto", "to_bytes", "binary"})
    => /\ result.kind = "raise"
       /\ result.err = NotImplemented
       /\ result.proto = NoProto
       /\ result.bytes = <<>>

C6_Witness ==
    /\ call.op = "binary"
    /\ call.self = [cls |-> "Stub", val |-> 1]
    /\ result.kind = "raise"

\* C7: for an instance whose _object2proto succeeds, to_proto and proto
\* return what serialize returns in proto mode, to_bytes and binary return
\* the envelope bytes serialize returns in bytes mode, and none of them
\* raises the type-mismatch exception.
C7_WrappersAgreeWithSerialize ==
    Overrides(call.self.cls)
    => /\ call.op \in {"to_proto", "proto"}
            => /\ result.kind = "proto"
               /\ result = serialize(call.self, TRUE, FALSE)
       /\ call.op \in {"to_bytes", "binary"}
            => /\ result.kind = "bytes"
               /\ result = serialize(call.self, FALSE, TRUE)

C7_Witness ==
    /\ call.op = "binary"
    /\ call.self = [cls |-> "Flag", val |-> 1]
    /\ result.kind = "bytes"

\* C9: only bind_protobuf changes schema2type, and only at the schema of the
\* class it is given: serialize, to_proto, proto, to_bytes and binary (and
\* deserialize) leave every descriptor's schema2type as it was.
C9_OnlyRegisterWritesRegistry ==
    [][ /\ call'.op # "bind_protobuf" => schema2type' = schema2type
        /\ call'.op = "bind_protobuf"
             => \A d \in Descriptors :
                  d # get_protobuf_schema(call'.self.cls)
                    => schema2type'[d] = schema2type[d] ]_vars

C9_Witness ==
    /\ call.op = "bind_protobuf"
    /\ regLog = <<"Point", "Flag", "Flag">>
    /\ schema2type["PointPB"] = "Point"
    /\ schema2type["FlagPB"] = None

\* C10: under sequential bind_protobuf calls a descriptor's schema2type is
\* unset after no call against it, the class T after exactly one call (for
\* T), and None after two or more calls, two calls for the same class
\* included; so it only moves unset -> class -> None.
C10_State ==
    \A d \in Descriptors :
        /\ Len(CallsOn(d)) = 0 => schema2type[d] = Unset
        /\ Len(CallsOn(d)) = 1 => schema2type[d] = CallsOn(d)[1]
        /\ Len(CallsOn(d)) >= 2 => schema2type[d] = None

C10_Step ==
    \A d \in Descriptors :
        /\ schema2type[d] = None => schema2type'[d] = None
        /\ schema2type[d] \in Types => schema2type'[d] \in {schema2type[d], None}

C10_MappingFollowsCallCount == []C10_State /\ [][C10_Step]_vars

C10_Witness ==
    /\ regLog = <<"Flag", "Flag">>
    /\ schema2type["FlagPB"] = None

\* C8: when bind_protobuf calls for two distinct classes of one descriptor
\* run concurrently, with the hasattr test and the assignment as separate
\* steps, then once all calls have completed the descriptor's schema2type is
\* None, and a lookup started after that gives no class.
C8_ConcurrentRegistersEndAmbiguous ==
    \A d \in Descriptors :
        (AllDone /\ \E i, j \in DOMAIN CallsOn(d) : CallsOn(d)[i] # CallsOn(d)[j])
        => /\ schema2type[d] = None
           /\ (call.op = "resolve" /\ call.settled /\ get_protobuf_schema(call.self.cls) = d)
                => result.kind = "raise"

====
